---- MODULE Spec2Model ----
(***************************************************************************)
(* Water-quality dashboard (aqua-eye-watch).                               *)
(*                                                                         *)
(* Two revisions of the dashboard component are modelled: the multi-site   *)
(* dashboard (six water bodies, manual entry tab) and the earlier          *)
(* single-site dashboard.  One of them is mounted in a run (variant).      *)
(*                                                                         *)
(* Numbers are fixed-point integers in thousandths (7.8 is 7800).          *)
(* Timestamps are the millisecond instants that toISOString renders.       *)
(* Math.random() is a deterministic generator with a hidden seed: it is    *)
(* modelled as a stream over representative draws whose start position is  *)
(* chosen arbitrarily at construction.                                     *)
(***************************************************************************)
EXTENDS Integers, Sequences, FiniteSets, TLC

VARIABLES
    variant,            \* which revision of the dashboard is mounted
    phase,              \* "constructed" | "mounted" | "unmounted"
    now,                \* the clock reading (ms) of the running handler
    rng,                \* position of Math.random()'s stream
    ticks,              \* timer callbacks run so far
    activeTab,          \* useState 'realtime' | 'manual'
    selectedWaterBody,  \* useState, a site id
    currentData,        \* Record<string, WaterQualityData>
    historicalData,     \* Record<string, WaterQualityData[]>
    manualReadings,     \* parent's list of submitted readings, newest first
    typed,              \* text held by each of the four number inputs
    formData,           \* ManualWaterQualityInput formData (strings)
    lastReading,        \* ManualWaterQualityInput lastReading: <<>> or <<r>>
    sCurrentData,       \* single-site dashboard: currentData
    sHistoricalData,    \* single-site dashboard: historicalData
    probe               \* last call of a pure function (function-level runs)

vars == <<variant, phase, now, rng, ticks, activeTab, selectedWaterBody,
          currentData, historicalData, manualReadings, typed, formData,
          lastReading, sCurrentData, sHistoricalData, probe>>

dashVars == <<variant, phase, now, rng, ticks, activeTab, selectedWaterBody,
              currentData, historicalData, manualReadings, typed, formData,
              lastReading, sCurrentData, sHistoricalData>>

-----------------------------------------------------------------------------
(* Bounds of the exploration *)

MaxTicks == 11        \* timer callbacks followed on the real-time tab
ManualTicks == 1      \* timer callbacks followed once the manual tab is used
MaxManual == 2        \* manual submissions followed
RandRes == 2          \* Math.random() draws are k/RandRes, and the largest draw
StartMs == 100000     \* clock reading at construction
MaxThreshold == 3     \* generic thresholds of the classifier range over 0..MaxThreshold

-----------------------------------------------------------------------------
(* JavaScript numbers *)

\* Not-a-number and undefined: two values outside the fixed-point range.
NaN == -(2^30)
Undefined == NaN - 1

IsFinite(x) == x # NaN /\ x # Undefined

\* ToNumber(undefined) is NaN
ToNumber(x) == IF x = Undefined THEN NaN ELSE x

JsAdd(a, b) == IF ToNumber(a) = NaN \/ ToNumber(b) = NaN THEN NaN ELSE a + b

\* product of two fixed-point numbers (thousandths), rounded down
JsMul(a, b) == IF ToNumber(a) = NaN \/ ToNumber(b) = NaN THEN NaN ELSE (a * b) \div 1000

\* comparisons with NaN are false
JsLt(a, b) == ToNumber(a) # NaN /\ ToNumber(b) # NaN /\ a < b
JsGt(a, b) == JsLt(b, a)
JsLe(a, b) == ToNumber(a) # NaN /\ ToNumber(b) # NaN /\ a <= b
JsGe(a, b) == JsLe(b, a)

\* Math.max: NaN if either argument is NaN
MathMax(a, b) ==
    IF ToNumber(a) = NaN \/ ToNumber(b) = NaN THEN NaN
    ELSE IF a >= b THEN a ELSE b

\* Array.prototype.slice(-n): the last n elements (all of them if fewer)
SliceLast(arr, n) ==
    IF Len(arr) <= n THEN arr ELSE SubSeq(arr, Len(arr) - n + 1, Len(arr))

-----------------------------------------------------------------------------
(* Math.random() *)

\* representative draws in thousandths: 0, 1/RandRes, ..., and the largest
\* value below 1
DrawSeq == [i \in 1..RandRes |-> ((i - 1) * 1000) \div RandRes] \o <<999>>
NDraws == Len(DrawSeq)
DrawSet == {DrawSeq[i] : i \in 1..NDraws}
RngPeriod == NDraws * NDraws

\* the value returned by the call made at stream position k
MathRandom(k) == DrawSeq[(((k % RngPeriod) + ((k % RngPeriod) \div NDraws)) % NDraws) + 1]

\* the four draws one generated reading consumes, starting at position k
Draws4(k) == <<MathRandom(k), MathRandom(k + 1), MathRandom(k + 2), MathRandom(k + 3)>>

-----------------------------------------------------------------------------
(* Multi-site dashboard: registry and generator *)

waterBodies == <<"hussain-sagar", "musi-river", "himayat-sagar",
                 "osman-sagar", "durgam-cheruvu", "groundwater-1">>
NSites == Len(waterBodies)
SiteIds == {waterBodies[i] : i \in 1..NSites}

\* own properties of the baselines object literal
baselines ==
    [id \in SiteIds |->
        CASE id = "hussain-sagar"  -> [pH |-> 7800, turbidity |-> 2500, temperature |-> 24000, dissolvedOxygen |-> 6500]
          [] id = "musi-river"     -> [pH |-> 6800, turbidity |-> 4000, temperature |-> 26000, dissolvedOxygen |-> 5500]
          [] id = "himayat-sagar"  -> [pH |-> 7200, turbidity |-> 1200, temperature |-> 22000, dissolvedOxygen |-> 8000]
          [] id = "osman-sagar"    -> [pH |-> 7100, turbidity |-> 1000, temperature |-> 21000, dissolvedOxygen |-> 8500]
          [] id = "durgam-cheruvu" -> [pH |-> 7500, turbidity |-> 1800, temperature |-> 23000, dissolvedOxygen |-> 7200]
          [] id = "groundwater-1"  -> [pH |-> 6900, turbidity |-> 500, temperature |-> 25000, dissolvedOxygen |-> 7800]]

\* property names every object literal inherits from Object.prototype; their
\* values are functions/objects (truthy) that have none of the four fields
ObjectPrototypeKeys == {"constructor", "toString", "valueOf", "hasOwnProperty", "__proto__"}
InheritedValue == [pH |-> Undefined, turbidity |-> Undefined,
                   temperature |-> Undefined, dissolvedOxygen |-> Undefined]

\* baselines[waterBodyId]: own property, else inherited property, else undefined
\* (represented by <<>>, which is falsy)
PropertyGet(id) ==
    IF id \in SiteIds THEN <<baselines[id]>>
    ELSE IF id \in ObjectPrototypeKeys THEN <<InheritedValue>>
    ELSE <<>>

\* baselines[waterBodyId] || baselines['hussain-sagar']
getWaterBodyBaseline(waterBodyId) ==
    IF PropertyGet(waterBodyId) # <<>>
    THEN PropertyGet(waterBodyId)[1]
    ELSE baselines["hussain-sagar"]

Noise(r, span) == JsMul(r - 500, span)

generateNoFloor(waterBodyId, r, ts) ==
    LET baseline == getWaterBodyBaseline(waterBodyId) IN
    [pH              |-> JsAdd(baseline.pH, Noise(r[1], 1000)),
     turbidity       |-> JsAdd(baseline.turbidity, Noise(r[2], 1500)),
     temperature     |-> JsAdd(baseline.temperature, Noise(r[3], 3000)),
     dissolvedOxygen |-> JsAdd(baseline.dissolvedOxygen, Noise(r[4], 2000)),
     timestamp       |-> ts]

generateWideNoise(waterBodyId, r, ts) ==
    LET baseline == getWaterBodyBaseline(waterBodyId) IN
    [pH              |-> JsAdd(baseline.pH, Noise(r[1], 2000)),
     turbidity       |-> MathMax(100, JsAdd(baseline.turbidity, Noise(r[2], 1500))),
     temperature     |-> JsAdd(baseline.temperature, Noise(r[3], 3000)),
     dissolvedOxygen |-> MathMax(3000, JsAdd(baseline.dissolvedOxygen, Noise(r[4], 2000))),
     timestamp       |-> ts]

\* r: the four Math.random() results in evaluation order; ts: new Date()
generateWaterBodyData(waterBodyId, r, ts) ==
    LET baseline == getWaterBodyBaseline(waterBodyId) IN
    [pH              |-> JsAdd(baseline.pH, Noise(r[1], 1000)),
     turbidity       |-> MathMax(100, JsAdd(baseline.turbidity, Noise(r[2], 1500))),
     temperature     |-> JsAdd(baseline.temperature, Noise(r[3], 3000)),
     dissolvedOxygen |-> MathMax(3000, JsAdd(baseline.dissolvedOxygen, Noise(r[4], 2000))),
     timestamp       |-> ts]

getStatusStrict(value, min, max, optimal) ==
    IF JsLt(value, min) \/ JsGt(value, max) THEN "danger"
    ELSE IF JsGt(value, optimal[1]) /\ JsLt(value, optimal[2]) THEN "good"
    ELSE "warning"

getStatus(value, min, max, optimal) ==
    IF JsLt(value, min) \/ JsGt(value, max) THEN "danger"
    ELSE IF JsGe(value, optimal[1]) /\ JsLe(value, optimal[2]) THEN "good"
    ELSE "warning"

-----------------------------------------------------------------------------
(* Program constants *)

HistoryLimit == 20       \* slice(-20)
SeedCount == 10          \* for (let i = 0; i < 10; i++)
SeedSpacingMs == 3000    \* (10 - i) * 3000
TickMs == 3000           \* setInterval(..., 3000)

-----------------------------------------------------------------------------
(* Multi-site dashboard: effects and handlers *)

SiteIndex(id) == CHOOSE i \in 1..NSites : waterBodies[i] = id

\* Math.random() calls made for one water body by the initialization effect
CallsPerSeededSite == 4 * (1 + SeedCount)

\* the history seeded for the i-th water body (stream position k at the start
\* of its forEach iteration); loop variable i of the source is j - 1
seedHistoryEndingNow(id, k, ts) ==
    [j \in 1..SeedCount |->
        [generateWaterBodyData(id, Draws4(k + 4 * j), ts)
            EXCEPT !.timestamp = ts - (SeedCount - j) * SeedSpacingMs]]

seedHistoryNewestFirst(id, k, ts) ==
    [j \in 1..SeedCount |->
        [generateWaterBodyData(id, Draws4(k + 4 * j), ts)
            EXCEPT !.timestamp = ts - j * SeedSpacingMs]]

seedHistory(id, k, ts) ==
    [j \in 1..SeedCount |->
        [generateWaterBodyData(id, Draws4(k + 4 * j), ts)
            EXCEPT !.timestamp = ts - (SeedCount - (j - 1)) * SeedSpacingMs]]

\* initData of the initialization effect
initCurrent(k, ts) ==
    [id \in SiteIds |->
        generateWaterBodyData(id, Draws4(k + CallsPerSeededSite * (SiteIndex(id) - 1)), ts)]

\* initHistorical of the initialization effect
initHistorical(k, ts) ==
    [id \in SiteIds |-> seedHistory(id, k + CallsPerSeededSite * (SiteIndex(id) - 1), ts)]

appendNoLimit(prevList, newData) == Append(prevList, newData)

appendKeepOldest(prevList, newData) ==
    SubSeq(Append(prevList, newData), 1,
           IF Len(prevList) + 1 <= HistoryLimit THEN Len(prevList) + 1 ELSE HistoryLimit)

\* [...(prev[id] || []), newData].slice(-20)
appendHistory(prevList, newData) == SliceLast(Append(prevList, newData), HistoryLimit)

tickCurrentFirstSiteOnly(prev, k, ts) ==
    [id \in {waterBodies[1]} |-> generateWaterBodyData(id, Draws4(k), ts)]

\* updater passed to setCurrentData by the timer callback
tickCurrent(prev, k, ts) ==
    [id \in (DOMAIN prev) \cup SiteIds |->
        IF id \in SiteIds
        THEN generateWaterBodyData(id, Draws4(k + 4 * (SiteIndex(id) - 1)), ts)
        ELSE prev[id]]

tickHistoricalFirstSiteOnly(prev, k, ts) ==
    [id \in (DOMAIN prev) \cup {waterBodies[1]} |->
        IF id = waterBodies[1]
        THEN appendHistory(IF id \in DOMAIN prev THEN prev[id] ELSE <<>>,
                           generateWaterBodyData(id, Draws4(k), ts))
        ELSE prev[id]]

\* updater passed to setHistoricalData by the timer callback
tickHistorical(prev, k, ts) ==
    [id \in (DOMAIN prev) \cup SiteIds |->
        IF id \in SiteIds
        THEN appendHistory(IF id \in DOMAIN prev THEN prev[id] ELSE <<>>,
                           generateWaterBodyData(id, Draws4(k + 4 * (SiteIndex(id) - 1)), ts))
        ELSE prev[id]]

-----------------------------------------------------------------------------
(* Manual entry form: text, parsing and validation *)

Fields == <<"pH", "turbidity", "temperature", "dissolvedOxygen">>
FieldSet == {Fields[i] : i \in 1..Len(Fields)}

\* A text is a sequence of one-character strings.
Digits == <<"0", "1", "2", "3", "4", "5", "6", "7", "8", "9">>
IsDigit(c) == \E d \in 1..Len(Digits) : Digits[d] = c
DigitVal(c) == (CHOOSE d \in 1..Len(Digits) : Digits[d] = c) - 1

\* number of consecutive digits of s starting at index i
RECURSIVE DigitRun(_, _)
DigitRun(s, i) ==
    IF i <= Len(s) /\ IsDigit(s[i]) THEN 1 + DigitRun(s, i + 1) ELSE 0

\* value of the n digits of s starting at index i, as an integer
RECURSIVE DigitsValue(_, _, _)
DigitsValue(s, i, n) ==
    IF n = 0 THEN 0 ELSE DigitsValue(s, i, n - 1) * 10 + DigitVal(s[i + n - 1])

\* the fraction digits of s starting at index i (n of them) in thousandths
FracMilli(s, i, n) ==
    (IF n >= 1 THEN DigitVal(s[i]) * 100 ELSE 0)
    + (IF n >= 2 THEN DigitVal(s[i + 1]) * 10 ELSE 0)
    + (IF n >= 3 THEN DigitVal(s[i + 2]) ELSE 0)

\* parseFloat: the longest numeric prefix (sign, digits, fraction); NaN if the
\* text does not start with a number
parseFloat(s) ==
    LET signed == Len(s) >= 1 /\ s[1] \in {"-", "+"}
        start  == IF signed THEN 2 ELSE 1
        n      == DigitRun(s, start)
        dot    == start + n
        hasDot == dot <= Len(s) /\ s[dot] = "."
        m      == IF hasDot THEN DigitRun(s, dot + 1) ELSE 0
        mag    == DigitsValue(s, start, n) * 1000 + FracMilli(s, dot + 1, m)
    IN  IF n = 0 /\ m = 0 THEN NaN
        ELSE IF signed /\ s[1] = "-" THEN 0 - mag ELSE mag

\* HTML "valid floating-point number" (without exponent): optional "-", then
\* digits, or digits "." digits, or "." digits; nothing else
IsValidFloatingPointNumber(s) ==
    LET start  == IF Len(s) >= 1 /\ s[1] = "-" THEN 2 ELSE 1
        n      == DigitRun(s, start)
        dot    == start + n
        hasDot == dot <= Len(s) /\ s[dot] = "."
        m      == IF hasDot THEN DigitRun(s, dot + 1) ELSE 0
    IN  \/ ~hasDot /\ n >= 1 /\ dot = Len(s) + 1
        \/ hasDot /\ m >= 1 /\ dot + m = Len(s)

TextInputValue(text) == text

\* e.target.value of <Input type="number">: the text when it is a valid
\* floating-point number, the empty string otherwise
NumberInputValue(text) ==
    IF IsValidFloatingPointNumber(text) THEN text ELSE <<>>

\* texts typed into each field
InputTexts(field) ==
    CASE field = "pH"              -> {<<>>, <<"7", ".", "2">>, <<"a", "b", "c">>}
      [] field = "turbidity"       -> {<<>>, <<"0">>, <<"1", "2", "a">>}
      [] field = "temperature"     -> {<<>>, <<"2", "5">>, <<"-">>}
      [] field = "dissolvedOxygen" -> {<<>>, <<".", "5">>}

\* a JavaScript string is truthy iff it is not empty
Truthy(str) == str # <<>>

isFormValidParsed(fd) ==
    /\ parseFloat(fd["pH"]) > 0
    /\ parseFloat(fd["turbidity"]) > 0
    /\ parseFloat(fd["temperature"]) > 0
    /\ parseFloat(fd["dissolvedOxygen"]) > 0

\* formData.pH && formData.turbidity && formData.temperature && formData.dissolvedOxygen
isFormValid(fd) ==
    /\ Truthy(fd["pH"])
    /\ Truthy(fd["turbidity"])
    /\ Truthy(fd["temperature"])
    /\ Truthy(fd["dissolvedOxygen"])

\* disabled={!isFormValid}
SubmitDisabled == ~isFormValid(formData)

EmptyForm == [f \in FieldSet |-> <<>>]

\* the reading handleSubmit constructs
manualReading(fd, ts) ==
    [pH              |-> parseFloat(fd["pH"]),
     turbidity       |-> parseFloat(fd["turbidity"]),
     temperature     |-> parseFloat(fd["temperature"]),
     dissolvedOxygen |-> parseFloat(fd["dissolvedOxygen"]),
     timestamp       |-> ts,
     location        |-> "Hyderabad"]

-----------------------------------------------------------------------------
(* Single-site dashboard *)

\* useState initial value of currentData
sInitialData(ts) ==
    [pH |-> 7200, turbidity |-> 1500, temperature |-> 22300,
     dissolvedOxygen |-> 8500, timestamp |-> ts]

\* the object literal built by the timer callback and by the seeding loop
sNewData(r, ts) ==
    [pH              |-> JsAdd(6500, JsMul(r[1], 2000)),
     turbidity       |-> JsAdd(500, JsMul(r[2], 3000)),
     temperature     |-> JsAdd(20000, JsMul(r[3], 8000)),
     dissolvedOxygen |-> JsAdd(6000, JsMul(r[4], 4000)),
     timestamp       |-> ts]

sSeedHistory(k, ts) ==
    [j \in 1..SeedCount |->
        sNewData(Draws4(k + 4 * (j - 1)), ts - (SeedCount - (j - 1)) * SeedSpacingMs)]

\* [...prev, newData].slice(-20)
sAppendHistory(prev, newData) == SliceLast(Append(prev, newData), HistoryLimit)

-----------------------------------------------------------------------------
(* State after construction *)

NoProbe == [fn |-> "none"]

Init ==
    /\ variant \in {"multi", "single"}
    /\ phase = "constructed"
    /\ now = StartMs
    /\ rng \in 0..(NDraws - 1)
    /\ ticks = 0
    /\ activeTab = "realtime"
    /\ selectedWaterBody = "hussain-sagar"
    /\ currentData = <<>>
    /\ historicalData = <<>>
    /\ manualReadings = <<>>
    /\ typed = EmptyForm
    /\ formData = EmptyForm
    /\ lastReading = <<>>
    /\ sCurrentData = sInitialData(StartMs)
    /\ sHistoricalData = <<>>
    /\ probe = NoProbe

-----------------------------------------------------------------------------
(* Multi-site dashboard: actions *)

formVars == <<typed, formData, lastReading>>
singleVars == <<sCurrentData, sHistoricalData>>

\* the manual tab has been used: the timer is then followed for ManualTicks
ManualUsed == activeTab = "manual" \/ manualReadings # <<>>

\* the two mount effects: initialization, then setInterval
Mount ==
    /\ variant = "multi"
    /\ phase = "constructed"
    /\ phase' = "mounted"
    /\ currentData' = initCurrent(rng, now)
    /\ historicalData' = initHistorical(rng, now)
    /\ rng' = (rng + NSites * CallsPerSeededSite) % RngPeriod
    /\ UNCHANGED <<variant, now, ticks, activeTab, selectedWaterBody,
                   manualReadings, formVars, singleVars, probe>>

intervalNeverCleared == phase # "constructed"

\* the interval set by the tick effect runs until the effect's cleanup
\* (clearInterval) at unmount
IntervalActive == phase = "mounted"

\* the setInterval callback, 3000 ms after the previous one
TimerCallback ==
    /\ variant = "multi"
    /\ IntervalActive
    /\ now' = now + TickMs
    /\ ticks' = ticks + 1
    /\ currentData' = tickCurrent(currentData, rng, now')
    /\ historicalData' = tickHistorical(historicalData, rng + 4 * NSites, now')
    /\ rng' = (rng + 8 * NSites) % RngPeriod
    /\ UNCHANGED <<variant, phase, activeTab, selectedWaterBody,
                   manualReadings, formVars, singleVars, probe>>

\* the timer callback within the bounds of the exploration
Tick ==
    /\ ticks < MaxTicks
    /\ ManualUsed => ticks < ManualTicks
    /\ TimerCallback

\* Select onValueChange / overview card onClick (rendered on the real-time tab)
SelectWaterBody(id) ==
    /\ variant = "multi"
    /\ phase = "mounted"
    /\ activeTab = "realtime"
    /\ selectedWaterBody' = id
    /\ UNCHANGED <<variant, phase, now, rng, ticks, activeTab, currentData,
                   historicalData, manualReadings, formVars, singleVars, probe>>

TabClickKeepingForm(tab) ==
    /\ variant = "multi"
    /\ phase = "mounted"
    /\ activeTab' = tab
    /\ UNCHANGED <<variant, phase, now, rng, ticks, selectedWaterBody, currentData,
                   historicalData, manualReadings, formVars, singleVars, probe>>

\* tab buttons; the form is mounted only while the manual tab is shown, so a
\* change of tab constructs it anew or discards it
TabClick(tab) ==
    /\ variant = "multi"
    /\ phase = "mounted"
    /\ activeTab' = tab
    /\ IF tab # activeTab
       THEN /\ typed' = EmptyForm
            /\ formData' = EmptyForm
            /\ lastReading' = <<>>
       ELSE UNCHANGED formVars
    /\ UNCHANGED <<variant, phase, now, rng, ticks, selectedWaterBody, currentData,
                   historicalData, manualReadings, singleVars, probe>>

\* a click on a tab button within the bounds of the exploration: the manual
\* tab is opened during the first ManualTicks ticks
SetActiveTab(tab) ==
    /\ tab = "manual" => ticks <= ManualTicks
    /\ TabClick(tab)

\* onChange of one of the four inputs
handleInputChange(field, text) ==
    /\ variant = "multi"
    /\ phase = "mounted"
    /\ activeTab = "manual"
    /\ typed' = [typed EXCEPT ![field] = text]
    /\ formData' = [formData EXCEPT ![field] = NumberInputValue(text)]
    /\ UNCHANGED <<variant, phase, now, rng, ticks, activeTab, selectedWaterBody,
                   currentData, historicalData, manualReadings, lastReading,
                   singleVars, probe>>

handleManualReadingKeepLatest(prev, reading) == <<reading>>

\* setManualReadings(prev => [reading, ...prev])
handleManualReading(prev, reading) == <<reading>> \o prev

handleSubmitClearingForm ==
    /\ variant = "multi"
    /\ phase = "mounted"
    /\ activeTab = "manual"
    /\ ~SubmitDisabled
    /\ Len(manualReadings) < MaxManual
    /\ LET reading == manualReading(formData, now) IN
        /\ lastReading' = <<reading>>
        /\ manualReadings' = handleManualReading(manualReadings, reading)
    /\ typed' = EmptyForm
    /\ formData' = EmptyForm
    /\ UNCHANGED <<variant, phase, now, rng, ticks, activeTab, selectedWaterBody,
                   currentData, historicalData, singleVars, probe>>

\* form onSubmit; the submit button is disabled unless isFormValid
handleSubmit ==
    /\ variant = "multi"
    /\ phase = "mounted"
    /\ activeTab = "manual"
    /\ ~SubmitDisabled
    /\ Len(manualReadings) < MaxManual
    /\ LET reading == manualReading(formData, now) IN
        /\ lastReading' = <<reading>>
        /\ manualReadings' = handleManualReading(manualReadings, reading)
    /\ UNCHANGED <<variant, phase, now, rng, ticks, activeTab, selectedWaterBody,
                   currentData, historicalData, typed, formData, singleVars, probe>>

\* effect cleanup: clearInterval
Unmount ==
    /\ phase = "mounted"
    /\ phase' = "unmounted"
    /\ UNCHANGED <<variant, now, rng, ticks, activeTab, selectedWaterBody,
                   currentData, historicalData, manualReadings, formVars,
                   singleVars, probe>>

-----------------------------------------------------------------------------
(* Single-site dashboard: actions *)

multiVars == <<activeTab, selectedWaterBody, currentData, historicalData,
               manualReadings, formVars>>

\* the two mount effects: setInterval, then seeding of the history
SMount ==
    /\ variant = "single"
    /\ phase = "constructed"
    /\ phase' = "mounted"
    /\ sHistoricalData' = sSeedHistory(rng, now)
    /\ rng' = (rng + 4 * SeedCount) % RngPeriod
    /\ UNCHANGED <<variant, now, ticks, sCurrentData, multiVars, probe>>

STick ==
    /\ variant = "single"
    /\ IntervalActive
    /\ ticks < MaxTicks
    /\ now' = now + TickMs
    /\ ticks' = ticks + 1
    /\ LET newData == sNewData(Draws4(rng), now') IN
        /\ sCurrentData' = newData
        /\ sHistoricalData' = sAppendHistory(sHistoricalData, newData)
    /\ rng' = (rng + 4) % RngPeriod
    /\ UNCHANGED <<variant, phase, multiVars, probe>>

Next ==
    \/ Mount
    \/ Tick
    \/ \E id \in SiteIds : SelectWaterBody(id)
    \/ \E tab \in {"realtime", "manual"} : SetActiveTab(tab)
    \/ \E field \in FieldSet : \E text \in InputTexts(field) : handleInputChange(field, text)
    \/ handleSubmit
    \/ Unmount
    \/ SMount
    \/ STick

Spec == Init /\ [][Next]_vars

-----------------------------------------------------------------------------
(* Progress of the timer.  React runs the mount effects after the first
   render and the browser fires a set interval until it is cleared, so the
   mount effects and the timer callback are weakly fair.  The timer does not
   depend on the manual form, which is left untouched here, so the callback is
   followed for MaxTicks ticks on either tab. *)

TickLive ==
    /\ ticks < MaxTicks
    /\ TimerCallback

NextLive ==
    \/ Mount
    \/ TickLive
    \/ \E id \in SiteIds : SelectWaterBody(id)
    \/ \E tab \in {"realtime", "manual"} : TabClick(tab)
    \/ Unmount
    \/ SMount
    \/ STick

SpecLive ==
    /\ Init
    /\ [][NextLive]_vars
    /\ WF_vars(Mount)
    /\ WF_vars(TickLive)
    /\ WF_vars(SMount)
    /\ WF_vars(STick)

-----------------------------------------------------------------------------
(* Function-level runs: one pure function applied once to arbitrary arguments *)

\* ids handed to the registry: the registered ones, unregistered ones, and
\* unregistered ones that name a property inherited from Object.prototype
ProbeIds == SiteIds \cup {"unknown-lake", "", "constructor", "toString"}

\* the threshold tuples of the four parameter cards: <<min, max, optimal>>
CardThresholds ==
    {<<6000, 8500, <<6500, 7500>>>>, <<0, 4000, <<0, 1000>>>>,
     <<0, 35000, <<15000, 25000>>>>, <<5000, 15000, <<7000, 12000>>>>}

\* values around every bound of the cards' thresholds, and three pH values
CardValues ==
    UNION {{b - 100, b, b + 100} :
            b \in UNION {{t[1], t[2], t[3][1], t[3][2]} : t \in CardThresholds}}
    \cup {7000, 5900, 6200}

\* every small threshold tuple with min <= max and optimalLow <= optimalHigh
SmallThresholds ==
    {<<mn, mx, <<lo, hi>>>> : mn \in 0..MaxThreshold, mx \in 0..MaxThreshold,
                              lo \in 0..MaxThreshold, hi \in 0..MaxThreshold}
SmallValues == (0 - 1)..(MaxThreshold + 1)

CallGetStatus ==
    /\ probe = NoProbe
    /\ \E t \in CardThresholds \cup SmallThresholds :
       \E v \in (IF t \in CardThresholds THEN CardValues ELSE SmallValues) :
            probe' = [fn |-> "getStatus", value |-> v, min |-> t[1], max |-> t[2],
                      optimal |-> t[3], out |-> getStatus(v, t[1], t[2], t[3])]
    /\ UNCHANGED dashVars

CallGetWaterBodyBaseline ==
    /\ probe = NoProbe
    /\ \E id \in ProbeIds :
            probe' = [fn |-> "getWaterBodyBaseline", id |-> id,
                      out |-> getWaterBodyBaseline(id)]
    /\ UNCHANGED dashVars

CallGenerateWaterBodyData ==
    /\ probe = NoProbe
    /\ \E id \in ProbeIds : \E r \in [1..4 -> DrawSet] :
            probe' = [fn |-> "generateWaterBodyData", id |-> id, r |-> r,
                      out |-> generateWaterBodyData(id, r, now)]
    /\ UNCHANGED dashVars

NextFn ==
    \/ CallGetStatus
    \/ CallGetWaterBodyBaseline
    \/ CallGenerateWaterBodyData

SpecFn == Init /\ [][NextFn]_vars

-----------------------------------------------------------------------------
(* Shorthands of the claims *)

MultiMounted == variant = "multi" /\ phase # "constructed"
SingleMounted == variant = "single" /\ phase # "constructed"
FormShown == variant = "multi" /\ phase = "mounted" /\ activeTab = "manual"

\* a timer callback of the multi-site dashboard is the step taken
IsTick == variant = "multi" /\ ticks' = ticks + 1

SeqToSet(q) == {q[i] : i \in 1..Len(q)}

\* every reading of the multi-site dashboard's real-time state
GeneratedReadings ==
    {currentData[id] : id \in DOMAIN currentData}
    \cup UNION {SeqToSet(historicalData[id]) : id \in DOMAIN historicalData}

\* every manually entered reading held by the form or by the parent
ManualReadingsHeld == SeqToSet(lastReading) \cup SeqToSet(manualReadings)

Abs(x) == IF x < 0 THEN 0 - x ELSE x

-----------------------------------------------------------------------------
(* C1: in every reachable state the history of every site of the multi-site
   dashboard has at most 20 entries, and so has the single history of the
   single-site dashboard. *)
C1_HistoryAtMost20 ==
    /\ \A id \in DOMAIN historicalData : Len(historicalData[id]) <= 20
    /\ Len(sHistoricalData) <= 20

\* every site's history is full and the first eviction has happened
C1_Witness ==
    /\ MultiMounted
    /\ ticks = 11
    /\ \A id \in SiteIds : Len(historicalData[id]) = 20

(* C2: a tick's history append for a site yields the previous history with
   the new reading (stamped with the tick's instant) at the tail, cut to its
   last 20 entries: below 20 entries nothing is dropped; at 20 entries exactly
   the oldest entry is dropped and the other 19 keep their order. *)
C2_AppendContract ==
    [][IsTick =>
        \A id \in SiteIds :
            LET p == historicalData[id]
                n == historicalData'[id]
            IN  /\ n[Len(n)].timestamp = now'
                /\ IF Len(p) < 20
                   THEN Len(n) = Len(p) + 1 /\ SubSeq(n, 1, Len(p)) = p
                   ELSE Len(n) = 20 /\ \A i \in 1..19 : n[i] = p[i + 1]]_vars

\* a tick has dropped the oldest seeded entry of a full history: the front
\* entry is now the second seeded one
C2_Witness ==
    /\ MultiMounted
    /\ Len(historicalData["musi-river"]) = 20
    /\ historicalData["musi-river"][1].timestamp = StartMs - 9 * 3000
    /\ historicalData["musi-river"][20].timestamp = now

(* C3: for every value and every threshold tuple whose optimal sub-range lies
   inside [min, max], getStatus returns one of good/warning/danger, danger iff
   value < min or value > max, good iff min <= value <= max and
   optimalLow <= value <= optimalHigh, warning otherwise; with the pH
   thresholds 7.0 is good, 5.9 is danger and 6.2 is warning. *)
C3_GetStatusReference ==
    probe.fn = "getStatus" =>
        LET v == probe.value
            inRange == probe.min <= v /\ v <= probe.max
            inOptimal == probe.optimal[1] <= v /\ v <= probe.optimal[2]
            pHCard == probe.min = 6000 /\ probe.max = 8500 /\ probe.optimal = <<6500, 7500>>
        IN  /\ (probe.min <= probe.optimal[1] /\ probe.optimal[2] <= probe.max) =>
                /\ probe.out \in {"good", "warning", "danger"}
                /\ probe.out = "danger" <=> ~inRange
                /\ probe.out = "good" <=> (inRange /\ inOptimal)
                /\ probe.out = "warning" <=> (inRange /\ ~inOptimal)
            /\ pHCard /\ v = 7000 => probe.out = "good"
            /\ pHCard /\ v = 5900 => probe.out = "danger"
            /\ pHCard /\ v = 6200 => probe.out = "warning"

\* a value on the inclusive lower bound of the optimal range of the pH card
C3_Witness ==
    /\ probe.fn = "getStatus"
    /\ probe.min = 6000 /\ probe.max = 8500 /\ probe.optimal = <<6500, 7500>>
    /\ probe.value = 6500
    /\ probe.out = "good"

(* C4: every reading generateWaterBodyData produced has turbidity >= 0.1 and
   dissolvedOxygen >= 3.0, so every current reading and every history entry of
   the multi-site dashboard satisfies both floors in every reachable state. *)
C4_Floors ==
    \A r \in GeneratedReadings :
        /\ IsFinite(r.turbidity) /\ r.turbidity >= 100
        /\ IsFinite(r.dissolvedOxygen) /\ r.dissolvedOxygen >= 3000

\* the floor replaced a turbidity that the noise took below 0.1
C4_Witness ==
    /\ MultiMounted
    /\ currentData["groundwater-1"].turbidity = 100
    /\ \E i \in 1..Len(historicalData["groundwater-1"]) :
            historicalData["groundwater-1"][i].turbidity = 100

\* the typed texts that are numbers, listed by hand
NumericTexts == {<<"7", ".", "2">>, <<"0">>, <<"2", "5">>, <<".", "5">>}

(* C5: while the manual form is shown, its submit control is disabled exactly
   when one of the four fields is empty or holds text that is not a number,
   and enabled in every other case. *)
C5_SubmitGate ==
    FormShown => (SubmitDisabled <=> \E f \in FieldSet : typed[f] \notin NumericTexts)

\* three numeric fields (one of them "0") and one field holding letters: the
\* control is disabled although no field is empty
C5_Witness ==
    /\ FormShown
    /\ typed["pH"] = <<"a", "b", "c">>
    /\ typed["turbidity"] = <<"0">>
    /\ typed["temperature"] = <<"2", "5">>
    /\ typed["dissolvedOxygen"] = <<".", "5">>
    /\ SubmitDisabled

(* C6: every reading of every reachable state (current readings, history
   entries, the form's last reading, the parent's manual-readings list, and
   the single-site dashboard's readings) has four finite parameter values. *)
C6_FiniteReadings ==
    \A r \in GeneratedReadings \cup ManualReadingsHeld
             \cup {sCurrentData} \cup SeqToSet(sHistoricalData) :
        /\ IsFinite(r.pH)
        /\ IsFinite(r.turbidity)
        /\ IsFinite(r.temperature)
        /\ IsFinite(r.dissolvedOxygen)

\* a manual reading with turbidity "0" was submitted and is held by the form
\* and the parent; letters typed afterwards left it untouched
C6_Witness ==
    /\ FormShown
    /\ lastReading # <<>>
    /\ manualReadings # <<>>
    /\ lastReading[1].turbidity = 0
    /\ typed["turbidity"] = <<"1", "2", "a">>
    /\ GeneratedReadings # {}

\* the state the initialization left: no tick has run yet
JustInitialized == phase = "mounted" /\ ticks = 0

\* the seeded histories of the mounted dashboard
SeededHistories ==
    IF variant = "multi" THEN {historicalData[id] : id \in SiteIds}
    ELSE {sHistoricalData}

(* C7 as stated: initialization gives every site a history of exactly 10
   entries, oldest first, 3 seconds apart, the newest stamped with the
   initialization instant. *)
C7_SeedEndsAtNow ==
    JustInitialized =>
        \A h \in SeededHistories :
            /\ Len(h) = 10
            /\ \A i \in 1..9 : h[i + 1].timestamp = h[i].timestamp + 3000
            /\ h[10].timestamp = now

(* C7 amended: initialization gives every site a history of exactly 10
   entries, oldest first, 3 seconds apart, the newest stamped 3 seconds before
   the initialization instant (the oldest 30 seconds before it). *)
C7_SeedEndsBeforeNow ==
    JustInitialized =>
        \A h \in SeededHistories :
            /\ Len(h) = 10
            /\ \A i \in 1..9 : h[i + 1].timestamp = h[i].timestamp + 3000
            /\ h[10].timestamp = now - 3000
            /\ h[1].timestamp = now - 30000

\* the multi-site dashboard right after its initialization effect
C7_Witness ==
    /\ variant = "multi"
    /\ JustInitialized
    /\ DOMAIN historicalData = SiteIds
    /\ historicalData["osman-sagar"][10].timestamp = StartMs - 3000

(* C8 as stated: getWaterBodyBaseline returns the site's own baseline for the
   six registered ids and the 'hussain-sagar' baseline for every other id. *)
C8_FallbackForEveryUnknownId ==
    probe.fn = "getWaterBodyBaseline" =>
        probe.out = (IF probe.id \in SiteIds THEN baselines[probe.id]
                     ELSE baselines["hussain-sagar"])

(* C9: for every registered site and every noise draw each field of a
   generated reading lies within its amplitude of the site's baseline: pH
   within 0.5, temperature within 1.5, dissolvedOxygen within 1.0, turbidity
   within 0.75 unless the 0.1 floor replaced it. *)
C9_NoiseAmplitude ==
    (probe.fn = "generateWaterBodyData" /\ probe.id \in SiteIds) =>
        LET b == baselines[probe.id]
            o == probe.out
        IN  /\ Abs(o.pH - b.pH) <= 500
            /\ Abs(o.temperature - b.temperature) <= 1500
            /\ Abs(o.dissolvedOxygen - b.dissolvedOxygen) <= 1000
            /\ Abs(o.turbidity - b.turbidity) <= 750 \/ o.turbidity = 100

\* the lowest draw for every field of the site with the lowest turbidity
\* baseline: pH at the lower edge, turbidity replaced by the floor
C9_Witness ==
    /\ probe.fn = "generateWaterBodyData"
    /\ probe.id = "groundwater-1"
    /\ probe.out.pH = 6400
    /\ probe.out.turbidity = 100
    /\ probe.out.temperature = 23500
    /\ probe.out.dissolvedOxygen = 6800

(* C10: each timer tick of the multi-site dashboard replaces the current
   reading of every one of the six sites by one generated at the tick and
   appends exactly one reading, generated at the tick, to the history of
   every one of them. *)
C10_TickUpdatesEverySite ==
    [][IsTick =>
        /\ DOMAIN currentData' = SiteIds
        /\ DOMAIN historicalData' = SiteIds
        /\ \A id \in SiteIds :
            LET p == historicalData[id]
                n == historicalData'[id]
            IN  /\ currentData'[id].timestamp = now'
                /\ currentData'[id].timestamp # currentData[id].timestamp
                /\ n[Len(n)].timestamp = now'
                /\ Len(n) >= 2
                /\ n[Len(n) - 1] = p[Len(p)]]_vars

\* after a tick every site's current reading and newest history entry carry
\* the tick's instant
C10_Witness ==
    /\ MultiMounted
    /\ ticks >= 1
    /\ \A id \in SiteIds :
        /\ currentData[id].timestamp = now
        /\ historicalData[id][Len(historicalData[id])].timestamp = now
        /\ historicalData[id][Len(historicalData[id]) - 1].timestamp < now

\* a step in which the form submits: handleSubmit builds the reading from the
\* four fields, stores it as last reading and hands it to the parent, which
\* puts it in front of its list
IsSubmitOf(reading) ==
    /\ FormShown
    /\ reading = manualReading(formData, now)
    /\ lastReading' = <<reading>>
    /\ manualReadings' = <<reading>> \o manualReadings

(* C11 as stated: after n submissions in one form session the parent's list
   has n entries; for n = 1, the first submission of a form session (the last
   reading was absent before it) leaves a list of one entry. *)
C11_SessionCountIsListLength ==
    [][(FormShown /\ lastReading = <<>> /\ lastReading' # <<>>)
            => Len(manualReadings') = 1]_vars

(* C11: each manual submission hands the constructed reading, tagged with the
   location 'Hyderabad', to the parent exactly once (the parent's list gains
   exactly that reading at its front and nothing else ever changes the list)
   and stores the same reading as the form's last reading; the form keeps
   only the latest submission, the list keeps all of them, so while a last
   reading is shown it equals the newest entry of the list and n submissions
   of a form session make the list n entries longer than it was when the
   session began. *)
C11_SubmissionContract ==
    /\ [](lastReading # <<>> =>
            /\ Len(lastReading) = 1
            /\ manualReadings # <<>>
            /\ manualReadings[1] = lastReading[1])
    /\ [](\A i \in 1..Len(manualReadings) : manualReadings[i].location = "Hyderabad")
    /\ [][\/ /\ manualReadings' = manualReadings
              /\ lastReading' \in {lastReading, <<>>}
           \/ IsSubmitOf(manualReading(formData, now))]_vars

\* two submissions with a tick between them: the list holds both, newest
\* first, and the form shows the second
C11_Witness ==
    /\ FormShown
    /\ Len(manualReadings) = 2
    /\ lastReading = <<manualReadings[1]>>
    /\ manualReadings[1].timestamp > manualReadings[2].timestamp
    /\ manualReadings[1].location = "Hyderabad"

(* C12: once the view is unmounted the interval is cleared: no tick fires
   afterwards, and the current readings and histories of either dashboard
   never change again. *)
C12_NoTickAfterUnmount ==
    [][phase = "unmounted" =>
        /\ phase' = "unmounted"
        /\ ticks' = ticks
        /\ UNCHANGED <<currentData, historicalData, sCurrentData, sHistoricalData>>]_vars

\* the view was unmounted after some ticks, with ticks still to come had the
\* interval not been cleared
C12_Witness ==
    /\ phase = "unmounted"
    /\ ticks >= 1
    /\ ticks < MaxTicks

(* C13: in every state after initialization the keys of the current-readings
   map and the keys of the histories map are exactly the six registered site
   ids, whatever ticks, selections, tab switches and submissions happened. *)
C13_SiteIdsFixed ==
    MultiMounted =>
        /\ DOMAIN currentData = SiteIds
        /\ DOMAIN historicalData = SiteIds
        /\ Cardinality(SiteIds) = 6

\* after a tick, a selection of another site, and a manual submission
C13_Witness ==
    /\ MultiMounted
    /\ ticks >= 1
    /\ selectedWaterBody # "hussain-sagar"
    /\ manualReadings # <<>>
    /\ DOMAIN currentData = SiteIds

\* the newest (last) entry of a history
Tail1(h) == h[Len(h)]

Min(a, b) == IF a <= b THEN a ELSE b

\* every site's history has n entries
AllHistoriesHave(n) == \A id \in SiteIds : Len(historicalData[id]) = n

(* C14 as stated: after every tick of the multi-site dashboard the newest
   entry of every site's history is the site's current reading. *)
C14_HistoryTailIsCurrent ==
    (MultiMounted /\ ticks >= 1) =>
        \A id \in SiteIds : Tail1(historicalData[id]) = currentData[id]

(* C15: after initialization and k ticks every site's history has exactly
   min(10 + k, 20) entries; a tick makes a history shorter than 20 one entry
   longer and no step makes a history shorter; with the mount effects and the
   timer firing fairly, every site's history of a view that stays mounted
   reaches 20 entries and stays at 20 forever. *)
C15_HistoryGrowth ==
    /\ [](MultiMounted => AllHistoriesHave(Min(10 + ticks, 20)))
    /\ [][MultiMounted =>
            \A id \in SiteIds :
                /\ Len(historicalData'[id]) >= Len(historicalData[id])
                /\ IsTick => Len(historicalData'[id])
                                = Min(Len(historicalData[id]) + 1, 20)]_vars
    /\ <>[](variant = "multi" =>
                \/ phase = "unmounted"
                \/ phase = "mounted" /\ AllHistoriesHave(20))

\* the eleventh tick: the histories were full before it and are full after it
C15_Witness ==
    /\ variant = "multi"
    /\ phase = "mounted"
    /\ ticks = 11
    /\ AllHistoriesHave(20)

(* C16: every site's history is ordered oldest-first in every state:
   timestamps never decrease from front to tail; the entries appended by the
   ticks so far are all still there at the tail, newest last, behind the
   seeded ones, because initialization runs once, before the first tick. *)
C16_OldestFirst ==
    /\ phase = "constructed" => ticks = 0
    /\ MultiMounted =>
        \A id \in SiteIds :
            LET h == historicalData[id] IN
            /\ \A i \in 1..(Len(h) - 1) : h[i].timestamp <= h[i + 1].timestamp
            /\ \A j \in 1..Min(ticks, Len(h)) :
                    h[Len(h) - j + 1].timestamp = StartMs + (ticks - j + 1) * 3000
            /\ \A i \in 1..(Len(h) - ticks) : h[i].timestamp < StartMs
    /\ SingleMounted =>
        \A i \in 1..(Len(sHistoricalData) - 1) :
            sHistoricalData[i].timestamp <= sHistoricalData[i + 1].timestamp

\* three ticks after initialization: seven seeded entries would remain in a
\* full history; here all ten remain, followed by the three appended ones
C16_Witness ==
    /\ MultiMounted
    /\ ticks = 3
    /\ \A id \in SiteIds :
        /\ Len(historicalData[id]) = 13
        /\ historicalData[id][10].timestamp = StartMs - 3000
        /\ historicalData[id][11].timestamp = StartMs + 3000
        /\ historicalData[id][13].timestamp = StartMs + 9000

(* C17: a switch of tab discards the manual form's state: after leaving the
   manual tab and after coming back to it the four fields are empty and the
   last reading is absent, while the parent's list of submitted readings is
   what it was before the switch. *)
C17_TabSwitchResetsForm ==
    [][activeTab' # activeTab =>
        /\ typed' = EmptyForm
        /\ formData' = EmptyForm
        /\ lastReading' = <<>>
        /\ manualReadings' = manualReadings]_vars

\* the manual tab after a submission, a switch to the real-time tab and a
\* switch back: a last reading is absent only in a form mounted after the
\* submission
C17_Witness ==
    /\ FormShown
    /\ manualReadings # <<>>
    /\ lastReading = <<>>
    /\ typed = EmptyForm
    /\ formData = EmptyForm

(* C18: frame conditions of the multi-site dashboard: a tick leaves the
   selected site, the active tab and the manual-readings list unchanged; a
   selection of a site or a switch of tab leaves every current reading and
   every history unchanged; a manual submission leaves the current readings,
   the histories, the selected site and the four field values unchanged. *)
C18_FrameConditions ==
    [][/\ IsTick => UNCHANGED <<selectedWaterBody, activeTab, manualReadings>>
       /\ (selectedWaterBody' # selectedWaterBody \/ activeTab' # activeTab)
            => UNCHANGED <<currentData, historicalData>>
       /\ manualReadings' # manualReadings
            => UNCHANGED <<currentData, historicalData, selectedWaterBody,
                           formData, typed>>]_vars

\* a tick fired while the manual tab was active: the form still shows the
\* reading submitted before the tick and the fields it was built from
C18_Witness ==
    /\ FormShown
    /\ lastReading # <<>>
    /\ lastReading[1].timestamp < now
    /\ manualReadings = lastReading
    /\ isFormValid(formData)
    /\ lastReading[1].pH = parseFloat(formData["pH"])
    /\ \A id \in SiteIds : currentData[id].timestamp = now

(* C19: in every state of the multi-site dashboard a site has a history
   exactly if it has a current reading, and all sites' histories have the
   same length: either no site has been seeded or all have, and all have
   received the same ticks. *)
C19_SitesInStep ==
    variant = "multi" =>
        /\ DOMAIN historicalData = DOMAIN currentData
        /\ DOMAIN currentData \in {{}, SiteIds}
        /\ \A a \in DOMAIN historicalData : \A b \in DOMAIN historicalData :
                Len(historicalData[a]) = Len(historicalData[b])

\* two ticks after initialization the first and the last registered site
\* both hold twelve entries
C19_Witness ==
    /\ MultiMounted
    /\ ticks = 2
    /\ Len(historicalData[waterBodies[1]]) = 12
    /\ Len(historicalData[waterBodies[NSites]]) = 12

\* status of the pH card and of the temperature card for a reading
pHCardStatus(r) == getStatus(r.pH, 6000, 8500, <<6500, 7500>>)
temperatureCardStatus(r) == getStatus(r.temperature, 0, 35000, <<15000, 25000>>)

(* C20: every reading generated for a registered site, whatever the noise
   draws, has its pH within [6.0, 8.5] and its temperature within [0, 35],
   so neither the pH card nor the temperature card of a generated reading is
   classified danger in any state. *)
C20_NoDangerForPHAndTemperature ==
    MultiMounted =>
        \A r \in GeneratedReadings :
            /\ r.pH >= 6000 /\ r.pH <= 8500
            /\ r.temperature >= 0 /\ r.temperature <= 35000
            /\ pHCardStatus(r) # "danger"
            /\ temperatureCardStatus(r) # "danger"

\* the highest pH any site can show: the site with the highest pH baseline
\* drew the largest noise; its card is classified warning, not danger
C20_Witness ==
    /\ MultiMounted
    /\ selectedWaterBody = "hussain-sagar"
    /\ currentData[selectedWaterBody].pH = 8299
    /\ pHCardStatus(currentData[selectedWaterBody]) = "warning"

====
